---- MODULE Spec2Model ----
(***************************************************************************)
(* A model of the data validation tool: the command line entry point       *)
(* (data_validation/__main__.py), the query builder                        *)
(* (data_validation/query_builder/query_builder.py) and the parts of       *)
(* ConfigManager that the entry point and the unit tests use.              *)
(*                                                                         *)
(* Four specifications share the variables below:                          *)
(*   SpecAgg  get_aggregate_config on one set of arguments                 *)
(*   SpecCM   a ConfigManager driven as the unit tests drive it            *)
(*   SpecQB   a QueryBuilder: the add_* calls and compile                  *)
(*   Spec     the commands of main(): run and run-config                   *)
(* A specification leaves the variables of the others at their idle value. *)
(***************************************************************************)
EXTENDS Naturals, Sequences, FiniteSets, TLC

VARIABLES
    args,               \* the parsed command line arguments
    catalog,            \* column name -> declared type, the table the clients return
    pc,                 \* position of the running command or call
    aggregate_configs,  \* the list get_aggregate_config returned
    builder,            \* a QueryBuilder: aggregate_fields, filters, grouped_fields, limit
    tables,             \* side -> the table data_client.table() returns for it
    query,              \* the query the last compile returned: <<>> or <<q>>
    error,              \* the exception that ended the last call, or None
    warnings,           \* WARNING lines the last compile printed
    compiles,           \* the sides the plan as it stands was compiled against, in call order
    config_managers,    \* the list of ConfigManager instances in use
    ret,                \* what the last ConfigManager call returned
    yaml_file,          \* the YAML config file on disk: <<>> (no file) or its document
    executed,           \* run_validations: the outcome of each run_validation so far
    written,            \* whether the running command wrote the YAML file
    runs,               \* commands started so far
    clients,            \* the client handles the running command has obtained
    source_rows,        \* the result set of the source query, in row order
    target_rows,        \* the result set of the target query, in row order
    results             \* the ValidationResults reconcile returned

aggVars == <<args, catalog, aggregate_configs>>
qbVars == <<builder, tables, query, error, warnings, compiles>>
cmVars == <<config_managers, ret>>
cliVars == <<yaml_file, executed, written, runs, clients>>
recVars == <<source_rows, target_rows, results>>
vars == <<args, catalog, pc, aggregate_configs, builder, tables, query, error,
          warnings, compiles, config_managers, ret, yaml_file, executed, written, runs, clients,
          source_rows, target_rows, results>>

-----------------------------------------------------------------------------
(* Python values.  None is the string "None"; a command line argument is   *)
(* absent (None), the empty string, the string "*" or a JSON text, kept as *)
(* the list it parses to.                                                  *)

None == "None"

\* No YAML config file on disk.
NoFile == <<>>

ArgNone == [kind |-> "none", val |-> <<>>]
ArgEmpty == [kind |-> "empty", val |-> <<>>]
ArgStar == [kind |-> "star", val |-> <<>>]
ArgJson(v) == [kind |-> "json", val |-> v]

\* bool(x) of an argument: None and "" are false.
Truthy(a) == a.kind \notin {"none", "empty"}

\* json.loads of a JSON text holding a list.
json_loads(a) == a.val

Range(s) == {s[i] : i \in 1..Len(s)}


-----------------------------------------------------------------------------
(* The table both mock clients return.                                     *)

TableColumns == <<"a", "b", "c">>

ColumnTypes == {"int64", "float64", "string", "timestamp"}

Catalogs == [Range(TableColumns) -> ColumnTypes]

-----------------------------------------------------------------------------
(* ConfigManager: the aggregate helpers.                                   *)

build_config_count_aggregate ==
    [source_column |-> None, target_column |-> None,
     field_alias |-> "count", type |-> "count"]

\* arg_value: None (the wildcard) or a list of column names;
\* supported_types: the set of allowed types, empty when None or [] is passed.
build_config_column_aggregates(cat, agg_type, arg_value, supported_types) ==
    LET considered == IF arg_value = None THEN TableColumns ELSE arg_value
        allowed(c) == supported_types = {} \/ cat[c] \in supported_types
        entry(c) == [source_column |-> c, target_column |-> c,
                     field_alias |-> agg_type \o "__" \o c, type |-> agg_type]
        kept == SelectSeq(considered, allowed)
    IN [i \in 1..Len(kept) |-> entry(kept[i])]

-----------------------------------------------------------------------------
(* ConfigManager.  A config is a function from its keys to their values;   *)
(* a key that was never set reads as the empty list.                       *)

ValidationTypes == {"Column", "GroupedColumn", "Row"}

ConfigManager(config, source_client, target_client, verbose) ==
    [config |-> config, source_client |-> source_client,
     target_client |-> target_client, verbose |-> verbose]

ConfigList(cm, key) == IF key \in DOMAIN cm.config THEN cm.config[key] ELSE <<>>

SetConfig(cm, key, value) ==
    [cm EXCEPT !.config = [k \in DOMAIN cm.config \cup {key} |->
                              IF k = key THEN value ELSE cm.config[k]]]

validation_type(cm) == cm.config["type"]

result_handler_config(cm) == cm.config["result_handler"]

append_aggregates(cm, aggregate_configs_) ==
    SetConfig(cm, "aggregates", ConfigList(cm, "aggregates") \o aggregate_configs_)

append_query_groups(cm, grouped_column_configs) ==
    SetConfig(cm, "grouped_columns", ConfigList(cm, "grouped_columns") \o grouped_column_configs)

append_primary_keys(cm, primary_key_configs) ==
    SetConfig(cm, "primary_keys", ConfigList(cm, "primary_keys") \o primary_key_configs)

\* A slip that would answer for the Row kind as for the others.
process_in_memory_always(cm) == TRUE

process_in_memory(cm) == validation_type(cm) \in {"Column", "GroupedColumn"}

\* A slip that would name the alias after the aggregate style, "group__<c>".
build_config_grouped_columns_prefixed(cat, columns) ==
    IF \E i \in 1..Len(columns) : columns[i] \notin DOMAIN cat
    THEN [ok |-> FALSE, out |-> <<>>]
    ELSE [ok |-> TRUE,
          out |-> [i \in 1..Len(columns) |->
                    [source_column |-> columns[i], target_column |-> columns[i],
                     field_alias |-> "group__" \o columns[i],
                     cast |-> IF cat[columns[i]] = "timestamp" THEN "date" ELSE None]]]

\* build_config_grouped_columns: [ok, out]; a column the table lacks fails.
build_config_grouped_columns(cat, columns) ==
    IF \E i \in 1..Len(columns) : columns[i] \notin DOMAIN cat
    THEN [ok |-> FALSE, out |-> <<>>]
    ELSE [ok |-> TRUE,
          out |-> [i \in 1..Len(columns) |->
                    [source_column |-> columns[i], target_column |-> columns[i],
                     field_alias |-> columns[i],
                     cast |-> IF cat[columns[i]] = "timestamp" THEN "date" ELSE None]]]

\* The per-validation block, as the ordered list of its <<key, value>> pairs.
get_yaml_validation_block(cm) ==
    << <<"type", validation_type(cm)>>,
       <<"schema_name", cm.config["schema_name"]>>,
       <<"table_name", cm.config["table_name"]>>,
       <<"grouped_columns", ConfigList(cm, "grouped_columns")>> >>

Keys(pairs) == [i \in 1..Len(pairs) |-> pairs[i][1]]

Lookup(pairs, key) == pairs[CHOOSE i \in 1..Len(pairs) : pairs[i][1] = key][2]

-----------------------------------------------------------------------------
(* __main__.get_aggregate_config                                           *)

NumericTypes == {"int64", "float64"}

\* col_args = None if args.x == "*" else json.loads(args.x)
col_args(a) == IF a.kind = "star" THEN None ELSE json_loads(a)

\* One "if args.x:" block: the specs it adds to aggregate_configs.
requested(cat, a, agg_type, supported_types) ==
    IF Truthy(a)
    THEN build_config_column_aggregates(cat, agg_type, col_args(a), supported_types)
    ELSE <<>>

\* A slip that would drop the leading whole-table count.
get_aggregate_config_no_count(a, cat) ==
    requested(cat, a.count, "count", {})
    \o requested(cat, a.sum, "sum", NumericTypes)
    \o requested(cat, a.avg, "avg", NumericTypes)
    \o requested(cat, a.min, "min", NumericTypes)
    \o requested(cat, a.max, "max", NumericTypes)

\* A slip that would pass no type restriction for sum.
get_aggregate_config_sum_untyped(a, cat) ==
    <<build_config_count_aggregate>>
    \o requested(cat, a.count, "count", {})
    \o requested(cat, a.sum, "sum", {})
    \o requested(cat, a.avg, "avg", NumericTypes)
    \o requested(cat, a.min, "min", NumericTypes)
    \o requested(cat, a.max, "max", NumericTypes)

get_aggregate_config(a, cat) ==
    <<build_config_count_aggregate>>
    \o requested(cat, a.count, "count", {})
    \o requested(cat, a.sum, "sum", NumericTypes)
    \o requested(cat, a.avg, "avg", NumericTypes)
    \o requested(cat, a.min, "min", NumericTypes)
    \o requested(cat, a.max, "max", NumericTypes)

-----------------------------------------------------------------------------
(* query_builder: the field classes.  An optional value is None or a       *)
(* string; an optional limit is <<>> or <<n>>.                             *)

\* bool(s) of an optional string: None and "" are false.
TruthyStr(s) == s # None /\ s # ""

\* ibis_table[name] raises when the table has no such column.
HasColumn(t, name) == name \in DOMAIN t.types

IsTimestamp(t, name) == t.types[name] = "timestamp"

\* AggregateField(ibis_expr, field_name, alias)
AggregateField(expr, field_name, alias) ==
    [expr |-> expr, field_name |-> field_name, alias |-> alias]

\* AggregateField.compile: [ok, out].
AggregateField_compile(f, t) ==
    IF TruthyStr(f.field_name) /\ ~HasColumn(t, f.field_name)
    THEN [ok |-> FALSE, out |-> None]
    ELSE [ok |-> TRUE,
          out |-> [fn |-> f.expr, table |-> t.name,
                   col |-> IF TruthyStr(f.field_name) THEN f.field_name ELSE None,
                   name |-> IF TruthyStr(f.alias) THEN f.alias ELSE None]]

\* Operands of a filter: nothing, a literal, or a column of a table.
NoOperand == [kind |-> "none", table |-> None, col |-> None, cast |-> None, val |-> None]
Literal(v) == [kind |-> "lit", table |-> None, col |-> None, cast |-> None, val |-> v]
ColumnOperand(t, name) ==
    [kind |-> "col", table |-> t.name, col |-> name,
     cast |-> IF IsTimestamp(t, name) THEN "date" ELSE None, val |-> None]

\* FilterField(ibis_expr, left, right, left_field, right_field)
FilterField(expr, left, right, left_field, right_field) ==
    [expr |-> expr, left |-> left, right |-> right,
     left_field |-> left_field, right_field |-> right_field]

greater_than(field_name, value) ==
    FilterField("__gt__", NoOperand, Literal(value), field_name, None)

custom(expr) == FilterField(None, Literal(expr), NoOperand, None, None)

\* FilterField.compile resolving a column operand only while the operand is
\* not yet set.
FilterField_compile_resolve_once(f, t) ==
    IF f.expr = None
    THEN [ok |-> TRUE, self |-> f,
          out |-> [op |-> "raw_sql", table |-> t.name, left |-> f.left, right |-> NoOperand]]
    ELSE IF TruthyStr(f.left_field) /\ ~HasColumn(t, f.left_field)
    THEN [ok |-> FALSE, self |-> f, out |-> None]
    ELSE LET l == IF TruthyStr(f.left_field) /\ f.left = NoOperand
                  THEN ColumnOperand(t, f.left_field) ELSE f.left
             fl == [f EXCEPT !.left = l]
         IN IF TruthyStr(f.right_field) /\ ~HasColumn(t, f.right_field)
            THEN [ok |-> FALSE, self |-> fl, out |-> None]
            ELSE LET r == IF TruthyStr(f.right_field) /\ f.right = NoOperand
                          THEN ColumnOperand(t, f.right_field) ELSE f.right
                 IN [ok |-> TRUE, self |-> [fl EXCEPT !.right = r],
                     out |-> [op |-> f.expr, table |-> t.name, left |-> l, right |-> r]]

\* FilterField.compile: [ok, self, out]; self is the field after the call,
\* whose left and right the call assigns.
FilterField_compile(f, t) ==
    IF f.expr = None
    THEN [ok |-> TRUE, self |-> f,
          out |-> [op |-> "raw_sql", table |-> t.name, left |-> f.left, right |-> NoOperand]]
    ELSE IF TruthyStr(f.left_field) /\ ~HasColumn(t, f.left_field)
    THEN [ok |-> FALSE, self |-> f, out |-> None]
    ELSE LET l == IF TruthyStr(f.left_field) THEN ColumnOperand(t, f.left_field) ELSE f.left
             fl == [f EXCEPT !.left = l]
         IN IF TruthyStr(f.right_field) /\ ~HasColumn(t, f.right_field)
            THEN [ok |-> FALSE, self |-> fl, out |-> None]
            ELSE LET r == IF TruthyStr(f.right_field)
                          THEN ColumnOperand(t, f.right_field) ELSE f.right
                 IN [ok |-> TRUE, self |-> [fl EXCEPT !.right = r],
                     out |-> [op |-> f.expr, table |-> t.name, left |-> l, right |-> r]]

\* GroupedField(field_name, alias, cast)
GroupedField(field_name, alias, cast) ==
    [field_name |-> field_name, alias |-> alias, cast |-> cast]

\* A slip that would test the column type before the explicit cast.
GroupedField_compile_type_first(g, t) ==
    IF ~HasColumn(t, g.field_name)
    THEN [ok |-> FALSE, out |-> None, warned |-> FALSE]
    ELSE [ok |-> TRUE,
          out |-> [table |-> t.name, col |-> g.field_name,
                   cast |-> IF IsTimestamp(t, g.field_name) THEN "date"
                            ELSE IF TruthyStr(g.cast) THEN g.cast ELSE None,
                   name |-> IF TruthyStr(g.alias) THEN g.alias ELSE g.field_name],
          warned |-> ~IsTimestamp(t, g.field_name) /\ ~TruthyStr(g.cast)]

\* GroupedField.compile: [ok, out, warned].
GroupedField_compile(g, t) ==
    IF ~HasColumn(t, g.field_name)
    THEN [ok |-> FALSE, out |-> None, warned |-> FALSE]
    ELSE [ok |-> TRUE,
          out |-> [table |-> t.name, col |-> g.field_name,
                   cast |-> IF TruthyStr(g.cast) THEN g.cast
                            ELSE IF IsTimestamp(t, g.field_name) THEN "date" ELSE None,
                   name |-> IF TruthyStr(g.alias) THEN g.alias ELSE g.field_name],
          warned |-> ~TruthyStr(g.cast) /\ ~IsTimestamp(t, g.field_name)]

-----------------------------------------------------------------------------
(* query_builder.QueryBuilder                                              *)

QueryBuilder(aggregate_fields, filters, grouped_fields, limit) ==
    [aggregate_fields |-> aggregate_fields, filters |-> filters,
     grouped_fields |-> grouped_fields, limit |-> limit]

build_count_validator(limit) == QueryBuilder(<<>>, <<>>, <<>>, limit)

add_aggregate_field_prepend(b, f) == [b EXCEPT !.aggregate_fields = <<f>> \o @]

add_aggregate_field(b, f) == [b EXCEPT !.aggregate_fields = Append(@, f)]

add_grouped_field(b, g) == [b EXCEPT !.grouped_fields = Append(@, g)]

add_filter_field(b, f) == [b EXCEPT !.filters = Append(@, f)]

\* The first index whose compile raises, or 0.
FirstBad(oks) ==
    IF \A i \in 1..Len(oks) : oks[i] THEN 0
    ELSE CHOOSE i \in 1..Len(oks) : ~oks[i] /\ \A j \in 1..(i-1) : oks[j]

\* bool(limit): None and 0 are false.
TruthyLimit(limit) == limit # <<>> /\ limit[1] # 0

\* QueryBuilder.compile against table t: [self, query, error, warnings].
\* The list comprehensions run in the order aggregates, filters, groups and
\* the first field that raises ends the call; filters compiled before that
\* keep the operands the call assigned.
QueryBuilder_compile(b, t) ==
    LET na == Len(b.aggregate_fields)
        nf == Len(b.filters)
        ng == Len(b.grouped_fields)
        agg(i) == AggregateField_compile(b.aggregate_fields[i], t)
        fil(i) == FilterField_compile(b.filters[i], t)
        grp(i) == GroupedField_compile(b.grouped_fields[i], t)
        badAgg == FirstBad([i \in 1..na |-> agg(i).ok])
        badFil == FirstBad([i \in 1..nf |-> fil(i).ok])
        badGrp == FirstBad([i \in 1..ng |-> grp(i).ok])
        filtersAfter == [i \in 1..nf |->
                            IF badFil = 0 \/ i <= badFil THEN fil(i).self ELSE b.filters[i]]
        lastGrp == IF badGrp = 0 THEN ng ELSE badGrp - 1
        warned == Cardinality({i \in 1..lastGrp : grp(i).warned})
        limited == TruthyLimit(b.limit)
    IN IF badAgg # 0
       THEN [self |-> b, query |-> <<>>, error |-> "KeyError", warnings |-> 0]
       ELSE IF badFil # 0
       THEN [self |-> [b EXCEPT !.filters = filtersAfter], query |-> <<>>,
             error |-> "KeyError", warnings |-> 0]
       ELSE IF badGrp # 0
       THEN [self |-> [b EXCEPT !.filters = filtersAfter], query |-> <<>>,
             error |-> "KeyError", warnings |-> warned]
       ELSE [self |-> [b EXCEPT !.filters = filtersAfter],
             query |-> <<[table |-> t.name,
                          filters |-> [i \in 1..nf |-> fil(i).out],
                          groups |-> [i \in 1..ng |-> grp(i).out],
                          aggs |-> [i \in 1..na |-> agg(i).out],
                          limit |-> IF limited THEN b.limit ELSE <<>>,
                          steps |-> <<"filter", "groupby", "aggregate">>
                                    \o (IF limited THEN <<"limit">> ELSE <<>>)]>>,
             error |-> None, warnings |-> warned]

-----------------------------------------------------------------------------
(* The values a specification leaves in the variables it does not use.     *)

EmptyBuilder == build_count_validator(<<>>)

IdleQB ==
    /\ builder = EmptyBuilder
    /\ tables = <<>>
    /\ query = <<>>
    /\ error = None
    /\ warnings = 0
    /\ compiles = <<>>

IdleAgg ==
    /\ args = ArgNone
    /\ catalog = <<>>
    /\ aggregate_configs = <<>>

IdleCM ==
    /\ config_managers = <<>>
    /\ ret = None

IdleCli ==
    /\ yaml_file = NoFile
    /\ executed = <<>>
    /\ written = FALSE
    /\ runs = 0
    /\ clients = <<>>

IdleRec ==
    /\ source_rows = <<>>
    /\ target_rows = <<>>
    /\ results = <<>>

-----------------------------------------------------------------------------
(* SpecQB: a builder from build_count_validator, any sequence of add_*     *)
(* calls and compiles against the source and the target table.             *)

MaxFields == 2
MaxCompiles == 2

Sides == {"source", "target"}

\* The tables of the two sides: column a is a timestamp or an int64 on each.
QBTables ==
    {[s \in Sides |-> [name |-> s, types |-> [a |-> ty[s], b |-> "int64"]]] :
        ty \in [Sides -> {"int64", "timestamp"}]}

LimitChoices == {<<>>, <<0>>, <<10>>}

AggregateChoices ==
    {AggregateField("count", None, "count"),
     AggregateField("sum", "a", "sum__a"),
     AggregateField("min", "zz", None)}

FilterChoices ==
    {greater_than("a", "5"),
     custom("b > 1"),
     FilterField("__eq__", NoOperand, NoOperand, "b", "a"),
     FilterField("__lt__", NoOperand, Literal("7"), "zz", None)}

GroupedChoices ==
    {GroupedField("a", None, None),
     GroupedField("a", "g", "string"),
     GroupedField("a", "", ""),
     GroupedField("a", "g", None),
     GroupedField("b", None, None),
     GroupedField("zz", None, None)}

InitQB ==
    /\ IdleAgg
    /\ IdleCM
    /\ IdleCli
    /\ IdleRec
    /\ pc = "built"
    /\ \E limit \in LimitChoices : builder = build_count_validator(limit)
    /\ tables \in QBTables
    /\ query = <<>>
    /\ error = None
    /\ warnings = 0
    /\ compiles = <<>>

FieldCount(b) == Len(b.aggregate_fields) + Len(b.filters) + Len(b.grouped_fields)

AddAggregateField ==
    /\ FieldCount(builder) < MaxFields
    /\ \E f \in AggregateChoices : builder' = add_aggregate_field(builder, f)
    /\ pc' = "added"
    /\ compiles' = <<>>
    /\ UNCHANGED <<tables, query, error, warnings>>
    /\ UNCHANGED aggVars
    /\ UNCHANGED cmVars
    /\ UNCHANGED cliVars
    /\ UNCHANGED recVars

AddGroupedField ==
    /\ FieldCount(builder) < MaxFields
    /\ \E g \in GroupedChoices : builder' = add_grouped_field(builder, g)
    /\ pc' = "added"
    /\ compiles' = <<>>
    /\ UNCHANGED <<tables, query, error, warnings>>
    /\ UNCHANGED aggVars
    /\ UNCHANGED cmVars
    /\ UNCHANGED cliVars
    /\ UNCHANGED recVars

AddFilterField ==
    /\ FieldCount(builder) < MaxFields
    /\ \E f \in FilterChoices : builder' = add_filter_field(builder, f)
    /\ pc' = "added"
    /\ compiles' = <<>>
    /\ UNCHANGED <<tables, query, error, warnings>>
    /\ UNCHANGED aggVars
    /\ UNCHANGED cmVars
    /\ UNCHANGED cliVars
    /\ UNCHANGED recVars

CompiledPc(side) == IF side = "source" THEN "compiled_source" ELSE "compiled_target"

Compile ==
    /\ Len(compiles) < MaxCompiles
    /\ \E side \in Sides :
        LET r == QueryBuilder_compile(builder, tables[side])
        IN /\ builder' = r.self
           /\ query' = r.query
           /\ error' = r.error
           /\ warnings' = r.warnings
           /\ pc' = CompiledPc(side)
           /\ compiles' = Append(compiles, side)
    /\ UNCHANGED tables
    /\ UNCHANGED aggVars
    /\ UNCHANGED cmVars
    /\ UNCHANGED cliVars
    /\ UNCHANGED recVars

NextQB == AddAggregateField \/ AddGroupedField \/ AddFilterField \/ Compile

SpecQB == InitQB /\ [][NextQB]_vars

-----------------------------------------------------------------------------
(* SpecCM: one ConfigManager built on the sample config of the unit tests  *)
(* and called as the tests call it.                                        *)

SAMPLE_CONFIG(type) ==
    [source_conn |-> "DNE connection", target_conn |-> "DNE connection",
     type |-> type,
     schema_name |-> "bigquery-public-data.new_york_citibike",
     table_name |-> "citibike_trips",
     grouped_columns |-> <<>>,
     result_handler |-> "BigQuery"]

GroupedColumnRequests == {<<>>, <<"a">>, <<"b", "a">>, <<"c", "a", "b">>, <<"zz">>}

InitCM ==
    /\ IdleQB
    /\ IdleCli
    /\ IdleRec
    /\ aggregate_configs = <<>>
    /\ args = ArgNone
    /\ catalog \in Catalogs
    /\ pc = "constructed"
    /\ config_managers = <<ConfigManager(SAMPLE_CONFIG("Column"), "MockIbisClient",
                                         "MockIbisClient", FALSE)>>
    /\ ret = None

CallProcessInMemory ==
    /\ config_managers # <<>>
    /\ ret' = <<process_in_memory(config_managers[1])>>
    /\ pc' = "process_in_memory"
    /\ args' = ArgNone
    /\ UNCHANGED <<catalog, aggregate_configs, config_managers>>
    /\ UNCHANGED qbVars
    /\ UNCHANGED cliVars
    /\ UNCHANGED recVars

\* test_process_in_memory: the config is replaced by a copy of another kind.
SetValidationType ==
    /\ config_managers # <<>>
    /\ \E type \in ValidationTypes \ {validation_type(config_managers[1])} :
        config_managers' = <<SetConfig(config_managers[1], "type", type)>>
    /\ pc' = "set_type"
    /\ ret' = None
    /\ args' = ArgNone
    /\ UNCHANGED <<catalog, aggregate_configs>>
    /\ UNCHANGED qbVars
    /\ UNCHANGED cliVars
    /\ UNCHANGED recVars

CallBuildConfigGroupedColumns ==
    /\ config_managers # <<>>
    /\ \E columns \in GroupedColumnRequests :
        LET r == build_config_grouped_columns(catalog, columns)
        IN /\ args' = ArgJson(columns)
           /\ ret' = IF r.ok THEN r.out ELSE None
           /\ pc' = IF r.ok THEN "build_config_grouped_columns" ELSE "raised"
    /\ UNCHANGED <<catalog, aggregate_configs, config_managers>>
    /\ UNCHANGED qbVars
    /\ UNCHANGED cliVars
    /\ UNCHANGED recVars

CallGetYamlValidationBlock ==
    /\ config_managers # <<>>
    /\ ret' = get_yaml_validation_block(config_managers[1])
    /\ pc' = "get_yaml_validation_block"
    /\ args' = ArgNone
    /\ UNCHANGED <<catalog, aggregate_configs, config_managers>>
    /\ UNCHANGED qbVars
    /\ UNCHANGED cliVars
    /\ UNCHANGED recVars

NextCM ==
    \/ CallProcessInMemory
    \/ SetValidationType
    \/ CallBuildConfigGroupedColumns
    \/ CallGetYamlValidationBlock

SpecCM == InitCM /\ [][NextCM]_vars

-----------------------------------------------------------------------------
(* SpecAgg: one call of get_aggregate_config.                              *)

AggArgChoices == {ArgNone, ArgEmpty, ArgStar, ArgJson(<<"a">>), ArgJson(<<"b", "a">>)}

OtherAggArgChoices == {ArgNone, ArgStar, ArgJson(<<"c">>)}

AggArgs == [count : AggArgChoices, sum : AggArgChoices, avg : OtherAggArgChoices,
            min : OtherAggArgChoices, max : OtherAggArgChoices]

InitAgg ==
    /\ args \in AggArgs
    /\ catalog \in Catalogs
    /\ pc = "start"
    /\ aggregate_configs = <<>>
    /\ IdleQB
    /\ IdleCM
    /\ IdleCli
    /\ IdleRec

GetAggregateConfig ==
    /\ pc = "start"
    /\ aggregate_configs' = get_aggregate_config(args, catalog)
    /\ pc' = "returned"
    /\ UNCHANGED <<args, catalog>>
    /\ UNCHANGED qbVars
    /\ UNCHANGED cmVars
    /\ UNCHANGED cliVars
    /\ UNCHANGED recVars

NextAgg == GetAggregateConfig

SpecAgg == InitAgg /\ [][NextAgg]_vars

-----------------------------------------------------------------------------
(* __main__: building the config managers.                                 *)

\* cli_tools.get_connection: the connection descriptor stored under a name.
get_connection(name) == [connection |-> name]

\* DataValidation.get_data_client: a new client handle; serial is the number
\* of the call within the running command.
get_data_client(conn, serial) == [conn |-> conn, handle |-> serial]

\* ConfigManager.build_config_manager
build_config_manager(config_type, source_conn, target_conn, source_client, target_client, table_obj, result_handler_config_, verbose) ==
    ConfigManager([type |-> config_type,
                   source_conn |-> source_conn,
                   target_conn |-> target_conn,
                   schema_name |-> table_obj.schema_name,
                   table_name |-> table_obj.table_name,
                   result_handler |-> result_handler_config_],
                  source_client, target_client, verbose)

\* build_config_from_args: [ok, cm, error].
build_config_from_args(a, cm, cat) ==
    LET cm1 == append_aggregates(cm, get_aggregate_config(a, cat))
        grouped == validation_type(cm1) \in {"GroupedColumn", "Row"}
        gcols == build_config_grouped_columns(cat, json_loads(a.grouped_columns))
        cm2 == IF grouped THEN append_query_groups(cm1, gcols.out) ELSE cm1
        keyed == validation_type(cm2) \in {"Row"}
        primary_keys == IF Truthy(a.primary_keys) THEN json_loads(a.primary_keys) ELSE <<>>
        pkeys == build_config_grouped_columns(cat, primary_keys)
        cm3 == IF keyed THEN append_primary_keys(cm2, pkeys.out) ELSE cm2
    IN IF grouped /\ a.grouped_columns.kind = "none"
       THEN [ok |-> FALSE, cm |-> cm1, error |-> "TypeError"]
       ELSE IF grouped /\ a.grouped_columns.kind # "json"
       THEN [ok |-> FALSE, cm |-> cm1, error |-> "JSONDecodeError"]
       ELSE IF grouped /\ ~gcols.ok
       THEN [ok |-> FALSE, cm |-> cm1, error |-> "ColumnNotFoundError"]
       ELSE IF keyed /\ ~pkeys.ok
       THEN [ok |-> FALSE, cm |-> cm2, error |-> "ColumnNotFoundError"]
       ELSE [ok |-> TRUE, cm |-> cm3, error |-> None]

\* build_config_managers_from_args: [ok, configs, error, clients]; the first table
\* whose config cannot be built ends the call.
build_config_managers_from_args(a, cat) ==
    LET config_type == a.type
        source_conn == get_connection(a.source_conn)
        target_conn == get_connection(a.target_conn)
        result_handler_config_ ==
            IF Truthy(a.result_handler_config) THEN json_loads(a.result_handler_config)
            ELSE None
        source_client == get_data_client(source_conn, 1)
        target_client == get_data_client(target_conn, 2)
        tables_list == json_loads(a.tables_list)
        built(i) == build_config_from_args(a,
                        build_config_manager(config_type, source_conn, target_conn,
                                             source_client, target_client, tables_list[i],
                                             result_handler_config_, a.verbose),
                        cat)
        bad == FirstBad([i \in 1..Len(tables_list) |-> built(i).ok])
    IN IF bad # 0
       THEN [ok |-> FALSE, configs |-> <<>>, error |-> built(bad).error,
             clients |-> <<source_client, target_client>>]
       ELSE [ok |-> TRUE, configs |-> [i \in 1..Len(tables_list) |-> built(i).cm],
             error |-> None, clients |-> <<source_client, target_client>>]

-----------------------------------------------------------------------------
(* __main__: the YAML config file.  A document is the list of <<key,       *)
(* value>> pairs of a mapping in the order they stand in the file.         *)

\* yaml.dump writes the keys of a mapping in sorted order.
SortedKeys ==
    <<"grouped_columns", "result_handler", "schema_name", "source", "source_conn",
      "table_name", "target", "target_conn", "type", "validations">>

SortPairs(pairs) ==
    LET present == SelectSeq(SortedKeys, LAMBDA k : k \in Range(Keys(pairs)))
    IN [i \in 1..Len(present) |-> <<present[i], Lookup(pairs, present[i])>>]

dump(yaml_config) ==
    LET top == SortPairs(yaml_config)
    IN [i \in 1..Len(top) |->
          IF top[i][1] = "validations"
          THEN <<"validations", [j \in 1..Len(top[i][2]) |-> SortPairs(top[i][2][j])]>>
          ELSE top[i]]

\* yaml.load gives each mapping back as a dict.
AsDict(pairs) == [k \in Range(Keys(pairs)) |-> Lookup(pairs, k)]

load(doc) ==
    [k \in Range(Keys(doc)) |->
        IF k = "validations"
        THEN [j \in 1..Len(Lookup(doc, k)) |-> AsDict(Lookup(doc, k)[j])]
        ELSE Lookup(doc, k)]

\* A slip that would store the whole config of each validation.
convert_config_to_yaml_whole_config(a, cms) ==
    IF cms = <<>>
    THEN [ok |-> FALSE, yaml |-> <<>>, error |-> "IndexError"]
    ELSE [ok |-> TRUE,
          yaml |-> << <<"source", a.source_conn>>,
                      <<"target", a.target_conn>>,
                      <<"result_handler", result_handler_config(cms[1])>>,
                      <<"validations",
                        [i \in 1..Len(cms) |->
                            get_yaml_validation_block(cms[i])
                            \o << <<"source_conn", cms[i].config["source_conn"]>>,
                                  <<"target_conn", cms[i].config["target_conn"]>> >>]>> >>,
          error |-> None]

\* convert_config_to_yaml: [ok, yaml, error]; config_managers[0] raises on an
\* empty list.
convert_config_to_yaml(a, cms) ==
    IF cms = <<>>
    THEN [ok |-> FALSE, yaml |-> <<>>, error |-> "IndexError"]
    ELSE [ok |-> TRUE,
          yaml |-> << <<"source", a.source_conn>>,
                      <<"target", a.target_conn>>,
                      <<"result_handler", result_handler_config(cms[1])>>,
                      <<"validations",
                        [i \in 1..Len(cms) |-> get_yaml_validation_block(cms[i])]>> >>,
          error |-> None]

\* _get_arg_config_file raises ValueError when no path was given.
HasConfigFile(a) == Truthy(a.config_file)

\* A slip that would prepend each config manager to the list.
build_config_managers_from_yaml_prepend(a, file) ==
    IF ~HasConfigFile(a)
    THEN [ok |-> FALSE, configs |-> <<>>, error |-> "ValueError", clients |-> <<>>]
    ELSE IF file = NoFile
    THEN [ok |-> FALSE, configs |-> <<>>, error |-> "FileNotFoundError", clients |-> <<>>]
    ELSE LET yaml_configs == load(file)
             source_conn == get_connection(yaml_configs["source"])
             target_conn == get_connection(yaml_configs["target"])
             source_client == get_data_client(source_conn, 1)
             target_client == get_data_client(target_conn, 2)
             n == Len(yaml_configs["validations"])
             config(i) ==
                [k \in DOMAIN yaml_configs["validations"][i]
                       \cup {"source_conn", "target_conn", "result_handler"} |->
                    IF k = "source_conn" THEN source_conn
                    ELSE IF k = "target_conn" THEN target_conn
                    ELSE IF k = "result_handler" THEN yaml_configs["result_handler"]
                    ELSE yaml_configs["validations"][i][k]]
         IN [ok |-> TRUE,
             configs |-> [i \in 1..n |->
                            ConfigManager(config(n + 1 - i), source_client,
                                          target_client, a.verbose)],
             error |-> None]

\* build_config_managers_from_yaml: [ok, configs, error, clients].
build_config_managers_from_yaml(a, file) ==
    IF ~HasConfigFile(a)
    THEN [ok |-> FALSE, configs |-> <<>>, error |-> "ValueError", clients |-> <<>>]
    ELSE IF file = NoFile
    THEN [ok |-> FALSE, configs |-> <<>>, error |-> "FileNotFoundError", clients |-> <<>>]
    ELSE LET yaml_configs == load(file)
             source_conn == get_connection(yaml_configs["source"])
             target_conn == get_connection(yaml_configs["target"])
             source_client == get_data_client(source_conn, 1)
             target_client == get_data_client(target_conn, 2)
             config(i) ==
                [k \in DOMAIN yaml_configs["validations"][i]
                       \cup {"source_conn", "target_conn", "result_handler"} |->
                    IF k = "source_conn" THEN source_conn
                    ELSE IF k = "target_conn" THEN target_conn
                    ELSE IF k = "result_handler" THEN yaml_configs["result_handler"]
                    ELSE yaml_configs["validations"][i][k]]
         IN [ok |-> TRUE,
             configs |-> [i \in 1..Len(yaml_configs["validations"]) |->
                            ConfigManager(config(i), source_client, target_client,
                                          a.verbose)],
             error |-> None, clients |-> <<source_client, target_client>>]

\* store_yaml_config_file: [ok, file, error].
store_yaml_config_file(a, cms) ==
    IF ~HasConfigFile(a)
    THEN [ok |-> FALSE, file |-> NoFile, error |-> "ValueError"]
    ELSE LET yaml_configs == convert_config_to_yaml(a, cms)
         IN IF ~yaml_configs.ok
            THEN [ok |-> FALSE, file |-> NoFile, error |-> yaml_configs.error]
            ELSE [ok |-> TRUE, file |-> dump(yaml_configs.yaml), error |-> None]

-----------------------------------------------------------------------------
(* Spec: the commands run and run-config of main(), started one after the  *)
(* other on the same directory.                                            *)

MaxTables == 2
MaxRuns == 2

TableObjects ==
    <<[schema_name |-> "s", table_name |-> "t1"],
      [schema_name |-> "s", table_name |-> "t2"],
      [schema_name |-> "s", table_name |-> "t3"],
      [schema_name |-> "s", table_name |-> "t4"]>>

TablesLists == {SubSeq(TableObjects, 1, n) : n \in 0..MaxTables}

\* The table of the clients: c is the temporal column.
CliCatalog == [a |-> "int64", b |-> "string", c |-> "timestamp"]

RunArgs ==
    [command : {"run"},
     type : ValidationTypes,
     source_conn : {"src_conn"},
     target_conn : {"tgt_conn"},
     tables_list : {ArgJson(l) : l \in TablesLists},
     count : {ArgNone},
     sum : {ArgJson(<<"a">>)},
     avg : {ArgNone},
     min : {ArgNone},
     max : {ArgNone},
     grouped_columns : {ArgNone, ArgJson(<<"a">>), ArgJson(<<"c", "a">>)},
     primary_keys : {ArgNone, ArgJson(<<>>), ArgJson(<<"a">>)},
     result_handler_config : {ArgNone, ArgJson("bq_handler")},
     config_file : {ArgNone, ArgJson("f.yaml")},
     verbose : {FALSE}]

RunConfigArgs ==
    [command : {"run-config"},
     type : {None},
     source_conn : {None},
     target_conn : {None},
     tables_list : {ArgNone},
     count : {ArgNone},
     sum : {ArgNone},
     avg : {ArgNone},
     min : {ArgNone},
     max : {ArgNone},
     grouped_columns : {ArgNone},
     primary_keys : {ArgNone},
     result_handler_config : {ArgNone},
     config_file : {ArgNone, ArgJson("f.yaml")},
     verbose : {FALSE}]

Init ==
    /\ IdleQB
    /\ aggregate_configs = <<>>
    /\ ret = None
    /\ args = ArgNone
    /\ catalog = CliCatalog
    /\ pc = "shell"
    /\ config_managers = <<>>
    /\ yaml_file = NoFile
    /\ executed = <<>>
    /\ written = FALSE
    /\ runs = 0
    /\ clients = <<>>
    /\ IdleRec

Unused == <<catalog, aggregate_configs, ret>>

\* main: args = cli_tools.get_parsed_args(), in a new process.
Main ==
    /\ pc \in {"shell", "exit", "crashed"}
    /\ runs < MaxRuns
    /\ runs' = runs + 1
    /\ args' \in RunArgs \cup RunConfigArgs
    /\ pc' = "main"
    /\ config_managers' = <<>>
    /\ executed' = <<>>
    /\ written' = FALSE
    /\ error' = None
    /\ clients' = <<>>
    /\ UNCHANGED <<yaml_file, builder, tables, query, warnings, compiles>>
    /\ UNCHANGED Unused
    /\ UNCHANGED recVars

\* run: config_managers = build_config_managers_from_args(args)
RunBuild ==
    /\ pc = "main"
    /\ args.command = "run"
    /\ LET r == build_config_managers_from_args(args, catalog)
       IN /\ config_managers' = r.configs
          /\ error' = r.error
          /\ clients' = r.clients
          /\ pc' = IF r.ok THEN "built" ELSE "crashed"
    /\ UNCHANGED <<args, yaml_file, executed, written, runs>>
    /\ UNCHANGED <<builder, tables, query, warnings, compiles>>
    /\ UNCHANGED Unused
    /\ UNCHANGED recVars

\* run: if args.config_file: store_yaml_config_file(args, config_managers)
RunStore ==
    /\ pc = "built"
    /\ Truthy(args.config_file)
    /\ LET r == store_yaml_config_file(args, config_managers)
       IN /\ yaml_file' = IF r.ok THEN r.file ELSE yaml_file
          /\ written' = r.ok
          /\ error' = r.error
          /\ pc' = IF r.ok THEN "exit" ELSE "crashed"
    /\ UNCHANGED <<args, config_managers, executed, runs>>
    /\ UNCHANGED <<builder, tables, query, warnings, compiles, clients>>
    /\ UNCHANGED Unused
    /\ UNCHANGED recVars

\* run-config: config_managers = build_config_managers_from_yaml(args)
RunConfigBuild ==
    /\ pc = "main"
    /\ args.command = "run-config"
    /\ LET r == build_config_managers_from_yaml(args, yaml_file)
       IN /\ config_managers' = r.configs
          /\ error' = r.error
          /\ clients' = r.clients
          /\ pc' = IF r.ok THEN "built_yaml" ELSE "crashed"
    /\ UNCHANGED <<args, yaml_file, executed, written, runs>>
    /\ UNCHANGED <<builder, tables, query, warnings, compiles>>
    /\ UNCHANGED Unused
    /\ UNCHANGED recVars

\* run_validations is entered: by run without a config file, by run-config.
EnterRunValidations ==
    /\ \/ pc = "built" /\ ~Truthy(args.config_file)
       \/ pc = "built_yaml"
    /\ pc' = "run_validations"
    /\ UNCHANGED <<args, config_managers, yaml_file, executed, written, runs, error>>
    /\ UNCHANGED <<builder, tables, query, warnings, compiles, clients>>
    /\ UNCHANGED Unused
    /\ UNCHANGED recVars

\* The validations of the batch that are executing.
Running(done) == {i \in 1..Len(done) : done[i] = "running"}

\* run_validations: `for config_manager in config_managers:
\* run_validation(config_manager)`. The position of the config manager the
\* loop calls run_validation for, 0 while the call before it has not
\* returned.
NextValidation_parallel(done) == Len(done) + 1

NextValidation(done) == IF Running(done) # {} THEN 0 ELSE Len(done) + 1

\* One pass of the for loop: run_validation is called.
RunValidationStarts ==
    /\ pc = "run_validations"
    /\ NextValidation(executed) \in 1..Len(config_managers)
    /\ executed' = Append(executed, "running")
    /\ UNCHANGED <<args, config_managers, yaml_file, written, runs, error, pc>>
    /\ UNCHANGED <<builder, tables, query, warnings, compiles, clients>>
    /\ UNCHANGED Unused
    /\ UNCHANGED recVars

\* One pass of the for loop: run_validation returns.
RunValidationReturns ==
    /\ pc = "run_validations"
    /\ \E i \in Running(executed) : executed' = [executed EXCEPT ![i] = "ok"]
    /\ UNCHANGED <<args, config_managers, yaml_file, written, runs, error, pc>>
    /\ UNCHANGED <<builder, tables, query, warnings, compiles, clients>>
    /\ UNCHANGED Unused
    /\ UNCHANGED recVars

\* One pass of the for loop: validator.execute() raises; nothing catches it,
\* so it leaves run_validations and main.
RunValidationRaises ==
    /\ pc = "run_validations"
    /\ \E i \in Running(executed) : executed' = [executed EXCEPT ![i] = "raised"]
    /\ error' = "BackendExecutionError"
    /\ pc' = "crashed"
    /\ UNCHANGED <<args, config_managers, yaml_file, written, runs>>
    /\ UNCHANGED <<builder, tables, query, warnings, compiles, clients>>
    /\ UNCHANGED Unused
    /\ UNCHANGED recVars

\* The for loop is exhausted and main returns.
RunValidationsReturns ==
    /\ pc = "run_validations"
    /\ Running(executed) = {}
    /\ Len(executed) = Len(config_managers)
    /\ pc' = "exit"
    /\ UNCHANGED <<args, config_managers, yaml_file, executed, written, runs, error>>
    /\ UNCHANGED <<builder, tables, query, warnings, compiles, clients>>
    /\ UNCHANGED Unused
    /\ UNCHANGED recVars

Next ==
    \/ Main
    \/ RunBuild
    \/ RunStore
    \/ RunConfigBuild
    \/ EnterRunValidations
    \/ RunValidationStarts
    \/ RunValidationReturns
    \/ RunValidationRaises
    \/ RunValidationsReturns

Spec == Init /\ [][Next]_vars

-----------------------------------------------------------------------------
(* The result reconciler. A row is [key, value]: its group-key tuple and   *)
(* the value of the aggregate; a value is <<v>>, an absent one <<>>.       *)

Absent == <<>>

HasKey(rows, k) == \E i \in 1..Len(rows) : rows[i].key = k

RowOf(rows, k) == rows[CHOOSE i \in 1..Len(rows) : rows[i].key = k]

KeySet(rows) == {rows[i].key : i \in 1..Len(rows)}

\* A group present on both sides: target_value - source_value, match when
\* the difference is exactly zero.
Joined(s, t) ==
    [key |-> s.key, source_value |-> <<s.value>>, target_value |-> <<t.value>>,
     difference |-> <<t.value - s.value>>,
     verdict |-> IF t.value - s.value = 0 THEN "match" ELSE "mismatch"]

SourceOnly(s) ==
    [key |-> s.key, source_value |-> <<s.value>>, target_value |-> Absent,
     difference |-> Absent, verdict |-> "source-only"]

TargetOnly(t) ==
    [key |-> t.key, source_value |-> Absent, target_value |-> <<t.value>>,
     difference |-> Absent, verdict |-> "target-only"]

\* The same as an inner join: groups of one side only are dropped.
reconcile_inner_join(sourceRows, targetRows) ==
    LET both == SelectSeq(sourceRows, LAMBDA s : HasKey(targetRows, s.key))
    IN [i \in 1..Len(both) |-> Joined(both[i], RowOf(targetRows, both[i].key))]

\* reconcile: the full outer join on the group keys, in the order of the
\* source keys, the target-only keys after them.
reconcile(sourceRows, targetRows) ==
    LET targetOnly == SelectSeq(targetRows, LAMBDA t : ~HasKey(sourceRows, t.key))
    IN [i \in 1..Len(sourceRows) |->
            IF HasKey(targetRows, sourceRows[i].key)
            THEN Joined(sourceRows[i], RowOf(targetRows, sourceRows[i].key))
            ELSE SourceOnly(sourceRows[i])]
       \o [i \in 1..Len(targetOnly) |-> TargetOnly(targetOnly[i])]

-----------------------------------------------------------------------------
(* SpecRec: one reconciliation of a source and a target result set.        *)

MaxRows == 2

GroupKeys == {<<"x">>, <<"y">>, <<"z">>}

Values == {10, 20, 21}

\* The result sets of a grouped query: at most MaxRows rows, one per group.
ResultSets ==
    {rows \in UNION {[1..n -> [key : GroupKeys, value : Values]] : n \in 0..MaxRows} :
        \A i, j \in 1..Len(rows) : i # j => rows[i].key # rows[j].key}

InitRec ==
    /\ IdleAgg
    /\ IdleQB
    /\ IdleCM
    /\ IdleCli
    /\ pc = "executing"
    /\ source_rows \in ResultSets
    /\ target_rows \in ResultSets
    /\ results = <<>>

Reconcile ==
    /\ pc = "executing"
    /\ results' = reconcile(source_rows, target_rows)
    /\ pc' = "reconciled"
    /\ UNCHANGED <<source_rows, target_rows>>
    /\ UNCHANGED aggVars
    /\ UNCHANGED qbVars
    /\ UNCHANGED cmVars
    /\ UNCHANGED cliVars

NextRec == Reconcile

SpecRec == InitRec /\ [][NextRec]_vars

-----------------------------------------------------------------------------
(* Properties of get_aggregate_config.                                     *)

OfType(configs, t) == SelectSeq(configs, LAMBDA e : e.type = t)

\* The columns an argument names: every table column for "*".
Considered(a) == IF a.kind = "star" THEN TableColumns ELSE a.val

\* C1: whatever aggregates are requested, the returned list holds exactly one
\* entry with alias "count"; its type is count and it names no source and no
\* target column.
C1_ExactlyOneCount ==
    pc = "returned" =>
        LET hits == {i \in 1..Len(aggregate_configs) :
                        aggregate_configs[i].field_alias = "count"}
        IN /\ Cardinality(hits) = 1
           /\ \A i \in hits :
                /\ aggregate_configs[i].type = "count"
                /\ aggregate_configs[i].source_column = None
                /\ aggregate_configs[i].target_column = None

\* C1 witness: count requested on every column, so column counts sit beside
\* the whole-table count.
C1_Witness ==
    /\ pc = "returned"
    /\ args.count = ArgStar
    /\ args.sum = ArgNone
    /\ Len(aggregate_configs) = 1 + Len(TableColumns)

\* What one requested aggregate must contribute: the considered columns that
\* pass the type restriction, each as {c, c, "<type>__<c>", type}.
C2_Expected(a, t, restricted) ==
    IF ~Truthy(a) THEN <<>>
    ELSE LET cols == SelectSeq(Considered(a),
                        LAMBDA c : ~restricted \/ catalog[c] \in {"int64", "float64"})
         IN [i \in 1..Len(cols) |->
                [source_column |-> cols[i], target_column |-> cols[i],
                 field_alias |-> t \o "__" \o cols[i], type |-> t]]

\* C2: sum, avg, min and max keep a column only if its type is int64 or
\* float64, count keeps every requested column; a sum over int64 column a is
\* the single spec {a, a, sum__a, sum} and a sum over a column of another
\* type is empty.
C2_TypeRestriction ==
    pc = "returned" =>
        /\ Tail(OfType(aggregate_configs, "count")) = C2_Expected(args.count, "count", FALSE)
        /\ OfType(aggregate_configs, "sum") = C2_Expected(args.sum, "sum", TRUE)
        /\ OfType(aggregate_configs, "avg") = C2_Expected(args.avg, "avg", TRUE)
        /\ OfType(aggregate_configs, "min") = C2_Expected(args.min, "min", TRUE)
        /\ OfType(aggregate_configs, "max") = C2_Expected(args.max, "max", TRUE)
        /\ (args.sum = ArgJson(<<"a">>) /\ catalog["a"] = "int64") =>
                OfType(aggregate_configs, "sum") =
                    <<[source_column |-> "a", target_column |-> "a",
                       field_alias |-> "sum__a", type |-> "sum"]>>
        /\ (args.sum = ArgJson(<<"a">>) /\ catalog["a"] \notin {"int64", "float64"}) =>
                OfType(aggregate_configs, "sum") = <<>>

\* C2 witness: sum and count both asked for string column a; only the count
\* of a is built.
C2_Witness ==
    /\ pc = "returned"
    /\ args.sum = ArgJson(<<"a">>)
    /\ args.count = ArgJson(<<"a">>)
    /\ catalog["a"] = "string"
    /\ OfType(aggregate_configs, "sum") = <<>>
    /\ Len(OfType(aggregate_configs, "count")) = 2

-----------------------------------------------------------------------------
(* Properties of the query builder.                                        *)

\* The table the last compile ran against.
CompiledTable == IF pc = "compiled_source" THEN tables["source"] ELSE tables["target"]

JustCompiled == pc \in {"compiled_source", "compiled_target"}

\* C3: the aliases of the aggregates of a plan are pairwise distinct, an add
\* with an alias already in the plan being refused.
C3_AliasesDistinct ==
    \A i, j \in 1..Len(builder.aggregate_fields) :
        (i # j /\ builder.aggregate_fields[i].alias # None) =>
            builder.aggregate_fields[i].alias # builder.aggregate_fields[j].alias

\* C10: a compiled group field carries the explicit cast when one is set
\* (also on a timestamp column), else a cast to date on a timestamp column,
\* else no cast and one warning; it is named by the alias, or by the column
\* when no alias is set; compile succeeds when every column exists.
C10_CastPrecedence ==
    JustCompiled =>
        LET t == CompiledTable
            gs == builder.grouped_fields
            known == /\ \A i \in 1..Len(gs) : gs[i].field_name \in DOMAIN t.types
                     /\ \A i \in 1..Len(builder.aggregate_fields) :
                          builder.aggregate_fields[i].field_name \in DOMAIN t.types \cup {None}
                     /\ \A i \in 1..Len(builder.filters) :
                          /\ builder.filters[i].left_field \in DOMAIN t.types \cup {None}
                          /\ builder.filters[i].right_field \in DOMAIN t.types \cup {None}
        IN /\ known => error = None
           /\ error = None =>
                /\ Len(query[1].groups) = Len(gs)
                /\ \A i \in 1..Len(gs) :
                    LET e == query[1].groups[i]
                        explicit == gs[i].cast \notin {None, ""}
                        temporal == t.types[gs[i].field_name] = "timestamp"
                    IN /\ e.col = gs[i].field_name
                       /\ e.table = t.name
                       /\ explicit => e.cast = gs[i].cast
                       /\ (~explicit /\ temporal) => e.cast = "date"
                       /\ (~explicit /\ ~temporal) => e.cast = None
                       /\ e.name = IF gs[i].alias \in {None, ""}
                                   THEN gs[i].field_name ELSE gs[i].alias
                /\ warnings = Cardinality({i \in 1..Len(gs) :
                                /\ gs[i].cast \in {None, ""}
                                /\ t.types[gs[i].field_name] # "timestamp"})

\* C10 witness: an explicit cast on a timestamp column is kept under its
\* alias, beside an uncast int64 column that drew the warning.
C10_Witness ==
    /\ JustCompiled
    /\ error = None
    /\ CompiledTable.types["a"] = "timestamp"
    /\ builder.grouped_fields = <<GroupedField("a", "g", "string"), GroupedField("b", None, None)>>
    /\ query[1].groups[1].cast = "string"
    /\ query[1].groups[1].name = "g"
    /\ query[1].groups[2].cast = None
    /\ query[1].groups[2].name = "b"
    /\ warnings = 1

-----------------------------------------------------------------------------
(* Properties of ConfigManager.                                            *)

\* C6: process_in_memory answers true exactly for the Column and
\* GroupedColumn kinds and false for Row, by the kind the config has at the
\* call.
C6_ProcessInMemory ==
    pc = "process_in_memory" =>
        /\ config_managers[1].config["type"] \in {"Column", "GroupedColumn"} => ret = <<TRUE>>
        /\ config_managers[1].config["type"] = "Row" => ret = <<FALSE>>

\* C6 witness: the call answers false on a config whose kind was changed to
\* Row.
C6_Witness ==
    /\ pc = "process_in_memory"
    /\ config_managers[1].config["type"] = "Row"
    /\ ret = <<FALSE>>

\* C9: build_config_grouped_columns returns one spec per requested column,
\* in request order, and the spec of a non-temporal column c is
\* {source c, target c, alias c, cast None}.
C9_GroupedColumns ==
    pc = "build_config_grouped_columns" =>
        /\ Len(ret) = Len(args.val)
        /\ \A i \in 1..Len(args.val) :
            /\ ret[i].source_column = args.val[i]
            /\ catalog[args.val[i]] # "timestamp" =>
                ret[i] = [source_column |-> args.val[i], target_column |-> args.val[i],
                          field_alias |-> args.val[i], cast |-> None]

\* C9 witness: three columns requested out of table order, the first one
\* non-temporal.
C9_Witness ==
    /\ pc = "build_config_grouped_columns"
    /\ args.val = <<"c", "a", "b">>
    /\ catalog["c"] = "int64"
    /\ catalog["a"] = "timestamp"
    /\ ret[1] = [source_column |-> "c", target_column |-> "c",
                 field_alias |-> "c", cast |-> None]

-----------------------------------------------------------------------------
(* Properties of the commands.                                             *)

\* C4: no config of kind Row with an empty primary-key list is returned as
\* ready to execute; building one without primary keys fails.
C4_RowNeedsPrimaryKeys ==
    pc = "built" =>
        \A i \in 1..Len(config_managers) :
            validation_type(config_managers[i]) = "Row" =>
                ConfigList(config_managers[i], "primary_keys") # <<>>

\* C5: when a batch of validations has ended, every validation of the batch
\* was executed, also those after one that failed.
C5_LaterValidationsRun ==
    (pc \in {"exit", "crashed"} /\ executed # <<>>) =>
        Len(executed) = Len(config_managers)

BlockKeys == <<"type", "schema_name", "table_name", "grouped_columns">>

\* C7: the validation block of every config has exactly the keys type,
\* schema_name, table_name, grouped_columns, in this order, with the type
\* of the config; the blocks stored in the YAML file have these keys and no
\* connection or result-handler key.
C7_BlockKeys ==
    /\ \A i \in 1..Len(config_managers) :
        /\ Keys(get_yaml_validation_block(config_managers[i])) = BlockKeys
        /\ Lookup(get_yaml_validation_block(config_managers[i]), "type")
             = config_managers[i].config["type"]
    /\ yaml_file # NoFile =>
        \A j \in 1..Len(Lookup(yaml_file, "validations")) :
            /\ Len(Lookup(yaml_file, "validations")[j]) = Len(BlockKeys)
            /\ Range(Keys(Lookup(yaml_file, "validations")[j])) = Range(BlockKeys)

\* C7 witness: run stored the blocks of two Row validations with grouped
\* columns.
C7_Witness ==
    /\ pc = "exit"
    /\ written
    /\ args.type = "Row"
    /\ Len(config_managers) = 2
    /\ Len(Lookup(yaml_file, "validations")) = 2
    /\ Len(Lookup(Lookup(yaml_file, "validations")[2], "grouped_columns")) = 2

\* Serialize, write, read back, rebuild and serialize again: the validation
\* blocks of the second serialization are those of the first.
RoundTrip(a, cms) ==
    LET first == convert_config_to_yaml(a, cms)
    IN /\ first.ok
       /\ LET rebuilt == build_config_managers_from_yaml(
                            [a EXCEPT !.config_file = ArgJson("f.yaml")],
                            dump(first.yaml))
          IN /\ rebuilt.ok
             /\ LET second == convert_config_to_yaml(a, rebuilt.configs)
                IN /\ second.ok
                   /\ Lookup(second.yaml, "validations") = Lookup(first.yaml, "validations")

\* C8: for any list of config managers, serializing, parsing back and
\* serializing again yields the same validation blocks in the same order.
C8_RoundTrip == pc = "built" => RoundTrip(args, config_managers)

\* The round trip of every list that holds at least one config manager.
RoundTripNonEmpty == (pc = "built" /\ config_managers # <<>>) => RoundTrip(args, config_managers)

\* The config managers run-config builds serialize to the blocks run stored.
RereadBlocks ==
    pc = "built_yaml" =>
        /\ Len(config_managers) = Len(Lookup(yaml_file, "validations"))
        /\ \A i \in 1..Len(config_managers) :
            AsDict(get_yaml_validation_block(config_managers[i]))
                = AsDict(Lookup(yaml_file, "validations")[i])

-----------------------------------------------------------------------------
(* Properties of QueryBuilder.compile.                                     *)

\* The compiled lists of the last compile stand in the order the fields
\* have in the plan: every filter, every group, every aggregate.
CompiledInPlanOrder ==
    LET t == CompiledTable
        q == query[1]
    IN /\ q.table = t.name
       /\ q.filters = [i \in 1..Len(builder.filters) |->
                          FilterField_compile(builder.filters[i], t).out]
       /\ q.groups = [i \in 1..Len(builder.grouped_fields) |->
                          GroupedField_compile(builder.grouped_fields[i], t).out]
       /\ q.aggs = [i \in 1..Len(builder.aggregate_fields) |->
                          AggregateField_compile(builder.aggregate_fields[i], t).out]

\* C11: compile filters, then groups, then aggregates, then limits; the
\* limit step is applied if and only if a limit is set on the plan, and the
\* compiled lists keep the order of the plan.
C11_StepOrder ==
    (JustCompiled /\ error = None) =>
        /\ CompiledInPlanOrder
        /\ SubSeq(query[1].steps, 1, 3) = <<"filter", "groupby", "aggregate">>
        /\ builder.limit # <<>> =>
                query[1].steps = <<"filter", "groupby", "aggregate", "limit">>
                /\ query[1].limit = builder.limit
        /\ builder.limit = <<>> =>
                query[1].steps = <<"filter", "groupby", "aggregate">>

\* The same with the limit step applied exactly for a limit that is neither
\* None nor 0.
StepOrderNonZeroLimit ==
    (JustCompiled /\ error = None) =>
        /\ CompiledInPlanOrder
        /\ SubSeq(query[1].steps, 1, 3) = <<"filter", "groupby", "aggregate">>
        /\ (builder.limit # <<>> /\ builder.limit # <<0>>) =>
                query[1].steps = <<"filter", "groupby", "aggregate", "limit">>
                /\ query[1].limit = builder.limit
        /\ (builder.limit = <<>> \/ builder.limit = <<0>>) =>
                query[1].steps = <<"filter", "groupby", "aggregate">>

-----------------------------------------------------------------------------
(* Properties of the client handles of a batch.                            *)

\* The client handles the validation of a config manager works with.
Handles(cm) == {cm.source_client.handle, cm.target_client.handle}

\* No handle is used by two validations that are executing.
NoConcurrentUse ==
    \A i, j \in Running(executed) :
        i # j => Handles(config_managers[i]) \cap Handles(config_managers[j]) = {}

-----------------------------------------------------------------------------
(* Properties of add_aggregate_field, add_filter_field, add_grouped_field. *)

\* C13: every add call appends its field at the end of its own list and
\* leaves the other two lists and the limit as they were, so that each list
\* is its initial content followed by the fields added to it, in call order.
C13_PureAppends ==
    [][pc' = "added" =>
        /\ builder'.limit = builder.limit
        /\ \/ /\ \E f \in AggregateChoices :
                    builder'.aggregate_fields = Append(builder.aggregate_fields, f)
              /\ builder'.filters = builder.filters
              /\ builder'.grouped_fields = builder.grouped_fields
           \/ /\ \E f \in FilterChoices :
                    builder'.filters = Append(builder.filters, f)
              /\ builder'.aggregate_fields = builder.aggregate_fields
              /\ builder'.grouped_fields = builder.grouped_fields
           \/ /\ \E g \in GroupedChoices :
                    builder'.grouped_fields = Append(builder.grouped_fields, g)
              /\ builder'.aggregate_fields = builder.aggregate_fields
              /\ builder'.filters = builder.filters]_vars

C13_Witness ==
    /\ pc = "added"
    /\ builder.limit = <<10>>
    /\ Len(builder.aggregate_fields) = 2
    /\ builder.aggregate_fields[1].alias = "count"
    /\ builder.aggregate_fields[2].alias = "sum__a"
    /\ builder.filters = <<>>
    /\ builder.grouped_fields = <<>>

-----------------------------------------------------------------------------
(* Properties of the reconciler.                                           *)

WithVerdict(rs, v) == {i \in 1..Len(rs) : rs[i].verdict = v}

\* C14: for source and target result sets with disjoint group-key sets of
\* sizes m and n, reconcile returns exactly m+n results: m source-only ones
\* with an absent target value and n target-only ones with an absent source
\* value.
C14_Completeness ==
    (pc = "reconciled" /\ KeySet(source_rows) \cap KeySet(target_rows) = {}) =>
        LET m == Cardinality(KeySet(source_rows))
            n == Cardinality(KeySet(target_rows))
        IN /\ Len(results) = m + n
           /\ Cardinality(WithVerdict(results, "source-only")) = m
           /\ Cardinality(WithVerdict(results, "target-only")) = n
           /\ \A i \in WithVerdict(results, "source-only") :
                /\ results[i].target_value = Absent
                /\ results[i].key \in KeySet(source_rows)
                /\ results[i].source_value = <<RowOf(source_rows, results[i].key).value>>
           /\ \A i \in WithVerdict(results, "target-only") :
                /\ results[i].source_value = Absent
                /\ results[i].key \in KeySet(target_rows)
                /\ results[i].target_value = <<RowOf(target_rows, results[i].key).value>>

C14_Witness ==
    /\ pc = "reconciled"
    /\ Len(source_rows) = 2
    /\ Len(target_rows) = 1
    /\ KeySet(source_rows) \cap KeySet(target_rows) = {}
    /\ Len(results) = 3

-----------------------------------------------------------------------------
(* Properties of compiling one plan against both sides.                    *)

\* The operands of a compiled filter that are column references.
ColumnOperands(cf) == {o \in {cf.left, cf.right} : o.kind = "col"}

\* The field is the one the plan held before a compile: what it was built
\* from is unchanged; only an operand that is resolved from a column name
\* has been assigned.
SameFilterField(after, before) ==
    /\ after.expr = before.expr
    /\ after.left_field = before.left_field
    /\ after.right_field = before.right_field
    /\ (before.expr = None \/ ~TruthyStr(before.left_field)) => after.left = before.left
    /\ (before.expr = None \/ ~TruthyStr(before.right_field)) => after.right = before.right

SameFields(after, before) ==
    /\ after.aggregate_fields = before.aggregate_fields
    /\ after.grouped_fields = before.grouped_fields
    /\ after.limit = before.limit
    /\ Len(after.filters) = Len(before.filters)
    /\ \A i \in 1..Len(before.filters) :
            SameFilterField(after.filters[i], before.filters[i])

\* C15: a plan compiled against the source table and then against the
\* target table gives for the target the query a compile of the plan against
\* the target alone gives; every column operand of a compiled filter refers
\* to the table of that compile; the lists of the plan hold the same fields
\* in the same order after a compile as before.
C15_CompileOncePerSide ==
    /\ LET first == QueryBuilder_compile(builder, tables["source"])
           second == QueryBuilder_compile(first.self, tables["target"])
           alone == QueryBuilder_compile(builder, tables["target"])
       IN /\ second.query = alone.query
          /\ second.error = alone.error
          /\ second.warnings = alone.warnings
          /\ SameFields(first.self, builder)
          /\ SameFields(second.self, builder)
    /\ JustCompiled =>
        /\ query = QueryBuilder_compile(builder, CompiledTable).query
        /\ error = None =>
            \A i \in 1..Len(query[1].filters) :
                \A o \in ColumnOperands(query[1].filters[i]) :
                    o.table = CompiledTable.name

C15_Witness ==
    /\ compiles = <<"source", "target">>
    /\ pc = "compiled_target"
    /\ error = None
    /\ tables["source"].types["a"] = "timestamp"
    /\ tables["target"].types["a"] = "int64"
    /\ Len(query[1].filters) = 1
    /\ builder.filters[1].left_field = "a"
    /\ query[1].filters[1].left = ColumnOperand(tables["target"], "a")
    /\ query[1].filters[1].left # ColumnOperand(tables["source"], "a")

-----------------------------------------------------------------------------
(* Properties of the run and run-config commands.                          *)

\* The exceptions that end build_config_managers_from_args.
BuildErrors == {"TypeError", "JSONDecodeError", "ColumnNotFoundError"}

\* A run command has ended after its config managers were built.
RunEnded ==
    /\ pc \in {"exit", "crashed"}
    /\ args.command = "run"
    /\ error \notin BuildErrors

\* A run-config command without a config file path has been started.
RunConfigWithoutFile ==
    /\ pc # "shell"
    /\ args.command = "run-config"
    /\ ~HasConfigFile(args)

\* run-config without a config file path fails with an error before any
\* client is obtained.
RunConfigFailsFirst ==
    RunConfigWithoutFile =>
        /\ pc \in {"main", "crashed"}
        /\ pc = "crashed" => error = "ValueError"
        /\ clients = <<>>
        /\ config_managers = <<>>
        /\ executed = <<>>

\* C16: after building the config managers, run with a config file path
\* writes the YAML file and executes no validation, and run without one
\* executes every config manager exactly once, in tables-list order, and
\* writes no file; run-config without a config file path fails before any
\* connection or client is obtained.
C16_RunDoesOneOfTwo ==
    /\ RunEnded =>
        IF Truthy(args.config_file)
        THEN written /\ executed = <<>>
        ELSE /\ ~written
             /\ Len(executed) = Len(config_managers)
             /\ Running(executed) = {}
    /\ RunConfigFailsFirst

\* The same for the runs that no exception ended; no command both writes the
\* file and executes a validation.
RunWritesOrExecutes ==
    /\ (pc = "exit" /\ args.command = "run") =>
        IF Truthy(args.config_file)
        THEN written /\ executed = <<>>
        ELSE /\ ~written
             /\ executed = [i \in 1..Len(config_managers) |-> "ok"]
             /\ Len(config_managers) = Len(json_loads(args.tables_list))
             /\ \A i \in 1..Len(config_managers) :
                    config_managers[i].config["table_name"] =
                        json_loads(args.tables_list)[i]["table_name"]
    /\ ~(written /\ executed # <<>>)
    /\ RunConfigFailsFirst

====
